---- MODULE Spec2Model ----
(***************************************************************************)
(* Model of ptyrad/utils/common.py: the verbose printer vprint, the        *)
(* CustomLogger life cycle (construction, flush_to_file, close) on the     *)
(* process-wide 'PtyRAD' logger, set_gpu_device and safe_get_nested.       *)
(*                                                                         *)
(* Strings are TLA+ strings, a text stream (stdout, stderr, the StringIO   *)
(* buffer, a file) is the sequence of the lines written to it.             *)
(***************************************************************************)
EXTENDS Integers, Sequences, FiniteSets, TLC

\* Python's None, where a string is expected (log_file, log_dir arguments).
None == "None"

(***************************************************************************)
(* Bounds of the model.                                                    *)
(***************************************************************************)
\* vprint calls made by the driver code
MaxEmit == 2
\* flush_to_file calls
MaxFlush == 2
\* midnights that pass during the run
MaxDay == 1
\* set_gpu_device calls
MaxGpuCalls == 2
\* CUDA devices of the machine, and the largest gpuid requested
MaxCuda == 2
\* length of the key path given to safe_get_nested
MaxPath == 2

\* logging.INFO and logging.NOTSET (the level a logger has before setLevel).
INFO   == 20
NOTSET == 0

\* Levels the root logger may have been given by the embedding application
\* (logging.WARNING = 30 is the default, 20 is logging.INFO).
RootLevels == {20, 30}

Dates == <<"20261102", "20261103", "20261104">>

VARIABLES
    \* ---- environment of the process
    distAvailable,     \* torch.distributed.is_available()
    distInitialized,   \* torch.distributed.is_initialized()
    distRank,          \* torch.distributed.get_rank()
    rootHandlers,      \* the root logger has a handler (logging.basicConfig)
    rootLevel,         \* level of the root logger
    today,             \* index into Dates: what date.today() returns
    \* ---- logging.getLogger('PtyRAD')
    loggerLevel,       \* logger.level
    handlers,          \* logger.handlers, in order of addHandler
    \* ---- the CustomLogger instance the driver holds
    constructed,       \* an instance exists
    cfg,               \* log_file, log_dir, prefix_date, prefix_jobid, append_to_file, show_timestamp
    has_file_handler,  \* the attribute self.file_handler exists
    file_handler,      \* self.file_handler: 0 is None, else the id of a FileHandler
    log_buffer,        \* self.log_buffer (io.StringIO)
    \* ---- file system and streams
    files,             \* path -> lines of the file
    dirs,              \* directories that exist
    openStreams,       \* ids of FileHandlers whose stream is open
    nextId,            \* id of the next FileHandler created
    stdout,            \* lines printed by print()
    console,           \* lines written by the console StreamHandler (sys.stderr)
    rootOut,           \* messages that reached the root logger's handler
    \* ---- history
    emitted,           \* messages of the driver's vprint calls that passed vprint's gate since construction
    last,              \* the last operation and how it ended
    nEmit, nFlush,
    \* ---- set_gpu_device
    cudaAvailable,     \* torch.cuda.is_available()
    cudaCount,         \* torch.cuda.device_count()
    mpsAvailable,      \* torch.backends.mps.is_available()
    defaultDevice,     \* the device torch.set_default_device() was last given
    gpuCall,           \* the last set_gpu_device call: its argument and how it ended
    nGpuCalls,
    \* ---- safe_get_nested
    sg_d, sg_keys, sg_default,   \* the arguments d, keys, default
    sg_result          \* whether the call was made, and what it returned

envVars  == <<distAvailable, distInitialized, distRank, rootHandlers, rootLevel>>
logVars  == <<loggerLevel, handlers, constructed, cfg, has_file_handler, file_handler, log_buffer>>
ioVars   == <<files, dirs, openStreams, nextId, stdout, console, rootOut>>
histVars == <<emitted, last, nEmit, nFlush>>
gpuVars  == <<cudaAvailable, cudaCount, mpsAvailable, defaultDevice, gpuCall, nGpuCalls>>
getVars  == <<sg_d, sg_keys, sg_default, sg_result>>
vars     == <<envVars, today, logVars, ioVars, histVars, gpuVars, getVars>>

(***************************************************************************)
(* get_date                                                                *)
(***************************************************************************)
\* get_date() with the default format '%Y%m%d': date.today().strftime(...)
get_date == Dates[today]

(***************************************************************************)
(* Python's logging, as far as the code uses it.                           *)
(***************************************************************************)
\* logging.Formatter('%(asctime)s - %(message)s' if show_timestamp else '%(message)s')
Format(show_timestamp, msg) ==
    IF show_timestamp THEN "<asctime> - " \o msg ELSE msg

ConsoleHandler(ts) == [kind |-> "console", ts |-> ts, path |-> "", id |-> 0]
BufferHandler(ts)  == [kind |-> "buffer",  ts |-> ts, path |-> "", id |-> 0]
FileHandler(ts, path, id) == [kind |-> "file", ts |-> ts, path |-> path, id |-> id]

\* The streams a record can be written to, threaded through the calls of one operation.
IO == [stdout |-> stdout, console |-> console, rootOut |-> rootOut,
       log_buffer |-> log_buffer, files |-> files]

\* open(path, 'a').write(lines): the file is created when it does not exist.
AppendToFile(fs, path, lines) ==
    [p \in DOMAIN fs \cup {path} |->
        IF p = path THEN (IF path \in DOMAIN fs THEN fs[path] ELSE <<>>) \o lines
        ELSE fs[p]]

\* open(path, 'w').write(lines)
OverwriteFile(fs, path, lines) ==
    [p \in DOMAIN fs \cup {path} |-> IF p = path THEN lines ELSE fs[p]]

\* A buffer handler that writes the newest record first.
HandlerEmitNewestFirst(io, h, msg) ==
    CASE h.kind = "console" -> [io EXCEPT !.console = Append(@, Format(h.ts, msg))]
      [] h.kind = "buffer"  -> [io EXCEPT !.log_buffer = <<Format(h.ts, msg)>> \o @]
      [] h.kind = "file"    -> [io EXCEPT !.files = AppendToFile(@, h.path, <<Format(h.ts, msg)>>)]

\* Handler.emit(record): the handler formats the record and writes one line to its stream.
HandlerEmit(io, h, msg) ==
    CASE h.kind = "console" -> [io EXCEPT !.console = Append(@, Format(h.ts, msg))]
      [] h.kind = "buffer"  -> [io EXCEPT !.log_buffer = Append(@, Format(h.ts, msg))]
      [] h.kind = "file"    -> [io EXCEPT !.files = AppendToFile(@, h.path, <<Format(h.ts, msg)>>)]

\* Logger.callHandlers: every handler of the logger, in order, then (propagate
\* is True) the handlers of the root logger.
RECURSIVE CallOwnHandlers(_, _, _)
CallOwnHandlers(io, hs, msg) ==
    IF hs = <<>> THEN io
    ELSE CallOwnHandlers(HandlerEmit(io, Head(hs), msg), Tail(hs), msg)

CallHandlers(io, hs, msg) ==
    LET own == CallOwnHandlers(io, hs, msg)
    IN  IF rootHandlers THEN [own EXCEPT !.rootOut = Append(@, msg)] ELSE own

\* Logger.getEffectiveLevel: the logger's own level, or its parent's when NOTSET.
EffectiveLevel(level) == IF level # NOTSET THEN level ELSE rootLevel

\* Logger.info(msg): dropped unless the logger is enabled for INFO.
LoggerInfo(io, hs, level, msg) ==
    IF INFO >= EffectiveLevel(level) THEN CallHandlers(io, hs, msg) ELSE io

\* Logger.hasHandlers(): this logger or an ancestor it propagates to has a handler.
HasHandlers(hs) == hs # <<>> \/ rootHandlers

(***************************************************************************)
(* vprint                                                                  *)
(***************************************************************************)
\* The gate of vprint: verbose and (no distributed context or rank 0).
VPrintGate(verbose) ==
    verbose /\ (~distAvailable \/ ~distInitialized \/ distRank = 0)

\* vprint(msg, verbose=verbose) with the logger in state (hs, level).
VPrint(io, hs, level, msg, verbose) ==
    IF VPrintGate(verbose)
    THEN IF HasHandlers(hs)
         THEN LoggerInfo(io, hs, level, msg)
         ELSE [io EXCEPT !.stdout = Append(@, msg)]
    ELSE io

\* Several vprint calls in a row, all with verbose left at its default.
RECURSIVE VPrintAll(_, _, _, _)
VPrintAll(io, hs, level, msgs) ==
    IF msgs = <<>> THEN io
    ELSE VPrintAll(VPrint(io, hs, level, Head(msgs), TRUE), hs, level, Tail(msgs))

(***************************************************************************)
(* CustomLogger                                                            *)
(***************************************************************************)
LogFiles   == {None, "output.log"}
LogDirs    == {"auto", "out"}
JobIds     == {0, 7}
Configs    == [log_file : LogFiles, log_dir : LogDirs, prefix_date : BOOLEAN,
               prefix_jobid : JobIds, append_to_file : BOOLEAN, show_timestamp : BOOLEAN]

\* The defaults of CustomLogger.__init__.
DefaultConfig == [log_file |-> "output.log", log_dir |-> "auto", prefix_date |-> TRUE,
                  prefix_jobid |-> 0, append_to_file |-> TRUE, show_timestamp |-> TRUE]

\* Arguments of flush_to_file: log_dir=None or a directory, append_to_file=None or a bool.
LogDirArgs == {None, "run"}
AppendArgs == {[given |-> FALSE, val |-> FALSE], [given |-> TRUE, val |-> TRUE],
               [given |-> TRUE, val |-> FALSE]}

\* str(b) of a Python bool.
PyBool(b) == IF b THEN "True" ELSE "False"

\* self.flush_file = log_file is not None
flush_file(c) == c.log_file # None

\* The eight lines __init__ prints through vprint once its handlers are attached.
ConfigLines(c) ==
    << "### PtyRAD Logger configuration ###",
       "log_file       = '" \o c.log_file \o "'. If log_file = None, no log file will be created.",
       "log_dir        = '" \o c.log_dir
           \o "'. If log_dir = 'auto', then log will be saved to `output_path` or 'logs/'.",
       "flush_file     = " \o PyBool(flush_file(c))
           \o ". Automatically set to True if `log_file is not None`",
       "prefix_date    = " \o PyBool(c.prefix_date)
           \o ". If true, a datetime str is prefixed to the `log_file`.",
       "prefix_jobid   = '" \o ToString(c.prefix_jobid)
           \o "'. If not 0, it'll be prefixed to the log file."
           \o " This is used for hypertune mode with multiple GPUs.",
       "append_to_file = " \o PyBool(c.append_to_file)
           \o ". If true, logs will be appended to the existing file."
           \o " If false, the log file will be overwritten.",
       "show_timestamp = " \o PyBool(c.show_timestamp)
           \o ". If true, the printed information will contain a timestamp." >>
    \o << " " >>

\* How an operation ended: the exception it raised ("none" when it returned), and
\* for flush_to_file its log_dir argument and the path it wrote, for vprint its
\* verbose argument.
Outcome(op, raised, log_dir, path, verbose) ==
    [op |-> op, raised |-> raised, log_dir |-> log_dir, path |-> path, verbose |-> verbose]

NoOp(op) == Outcome(op, "none", None, "", TRUE)

\* CustomLogger(log_file, log_dir, prefix_date, prefix_jobid, append_to_file, show_timestamp)
Construct(c) ==
    /\ ~constructed                   \* the driver constructs one CustomLogger per process
    /\ LET hs == << ConsoleHandler(c.show_timestamp), BufferHandler(c.show_timestamp) >>
           \* no handler is attached to 'PtyRAD' before the first construction, so
           \* logger.handlers.clear() has nothing to drop; log_buffer is a new StringIO
           io == VPrintAll([IO EXCEPT !.log_buffer = <<>>], hs, INFO, ConfigLines(c))
       IN  /\ loggerLevel' = INFO
           /\ handlers' = hs
           /\ log_buffer' = io.log_buffer
           /\ console' = io.console
           /\ stdout' = io.stdout
           /\ rootOut' = io.rootOut
           /\ files' = io.files
    /\ constructed' = TRUE
    /\ cfg' = c
    /\ has_file_handler' = FALSE      \* __init__ never assigns self.file_handler
    /\ file_handler' = 0
    /\ emitted' = <<>>
    /\ last' = NoOp("construct")
    /\ UNCHANGED <<gpuVars, getVars, envVars, today, dirs, openStreams, nextId, nEmit, nFlush>>

\* str.zfill(2)
zfill2(s) == IF Len(s) < 2 THEN "0" \o s ELSE s

\* Lines 105-108 concatenate a str with self.log_file: TypeError when it is None.
FileNameRaises(c) == c.log_file = None /\ (c.prefix_jobid # 0 \/ c.prefix_date)

\* A file name whose job id is not padded to two digits.
LogFileNameUnpadded(c) ==
    LET withJob == IF c.prefix_jobid # 0
                   THEN ToString(c.prefix_jobid) \o "_" \o c.log_file
                   ELSE c.log_file
    IN  IF c.prefix_date THEN get_date \o "_" \o withJob ELSE withJob

\* Lines 104-108: the name of the log file.
LogFileName(c) ==
    LET withJob == IF c.prefix_jobid # 0
                   THEN zfill2(ToString(c.prefix_jobid)) \o "_" \o c.log_file
                   ELSE c.log_file
    IN  IF c.prefix_date THEN get_date \o "_" \o withJob ELSE withJob

\* Lines 92-96: the directory of the log file.
ResolveLogDir(arg, c) ==
    IF arg = None THEN (IF c.log_dir = "auto" THEN "logs" ELSE c.log_dir) ELSE arg

\* Lines 99-101: TRUE for file mode 'a', FALSE for 'w'.
ResolveAppend(arg, c) == IF arg.given THEN arg.val ELSE c.append_to_file

\* os.path.join(log_dir, log_file), log_file being a bare file name.
PathJoin(dir, name) == dir \o "/" \o name

\* with open(log_file_path, file_mode) as f: f.write(self.log_buffer.getvalue())
WriteBuffer(fs, path, append, lines) ==
    IF append THEN AppendToFile(fs, path, lines) ELSE OverwriteFile(fs, path, lines)

\* self.logger.addHandler(self.file_handler)
AddFileHandler(hs, fh) == Append(hs, fh)

\* self.log_buffer.truncate(0); self.log_buffer.seek(0)
TruncateBuffer(buf) == <<>>

\* flush_to_file(log_dir=dirArg, append_to_file=appArg)
Flush(dirArg, appArg) ==
    /\ constructed
    /\ nFlush < MaxFlush
    /\ nFlush' = nFlush + 1
    /\ LET log_dir == ResolveLogDir(dirArg, cfg)
           append  == ResolveAppend(appArg, cfg)
       IN  IF FileNameRaises(cfg)
           THEN /\ last' = Outcome("flush", "TypeError", dirArg, "", TRUE)
                /\ UNCHANGED <<handlers, has_file_handler, file_handler, log_buffer,
                               files, dirs, openStreams, nextId, stdout, console, rootOut>>
           ELSE IF flush_file(cfg)
           THEN LET path == PathJoin(log_dir, LogFileName(cfg))
                    fh   == FileHandler(cfg.show_timestamp, path, nextId)
                    hs   == AddFileHandler(handlers, fh)
                    io0  == [IO EXCEPT !.files = WriteBuffer(files, path, append, log_buffer),
                                       !.log_buffer = TruncateBuffer(log_buffer)]
                    io   == VPrintAll(io0, hs, loggerLevel,
                                <<"### Log file is flushed (created) as " \o path \o " ###", " ">>)
                IN  /\ dirs' = dirs \cup {log_dir}
                    /\ handlers' = hs
                    /\ has_file_handler' = TRUE
                    /\ file_handler' = nextId
                    /\ openStreams' = openStreams \cup {nextId}
                    /\ nextId' = nextId + 1
                    /\ files' = io.files
                    /\ log_buffer' = io.log_buffer
                    /\ stdout' = io.stdout
                    /\ console' = io.console
                    /\ rootOut' = io.rootOut
                    /\ last' = Outcome("flush", "none", dirArg, path, TRUE)
           ELSE LET io == VPrintAll(IO, handlers, loggerLevel,
                                <<"### Log file is not flushed (created) because log_file is set to "
                                    \o cfg.log_file \o " ###", " ">>)
                IN  /\ has_file_handler' = TRUE
                    /\ file_handler' = 0
                    /\ files' = io.files
                    /\ log_buffer' = io.log_buffer
                    /\ stdout' = io.stdout
                    /\ console' = io.console
                    /\ rootOut' = io.rootOut
                    /\ last' = Outcome("flush", "none", dirArg, "", TRUE)
                    /\ UNCHANGED <<handlers, dirs, openStreams, nextId>>
    /\ UNCHANGED <<gpuVars, getVars, envVars, today, loggerLevel, constructed, cfg, emitted, nEmit>>

\* self.logger.removeHandler(self.file_handler)
RemoveHandler(hs, id) == SelectSeq(hs, LAMBDA h : ~(h.kind = "file" /\ h.id = id))

\* close()
Close ==
    /\ constructed
    /\ IF ~has_file_handler
       THEN \* self.file_handler was never assigned: AttributeError
            /\ last' = Outcome("close", "AttributeError", None, "", TRUE)
            /\ UNCHANGED <<handlers, file_handler, openStreams>>
       ELSE IF file_handler # 0
       THEN /\ openStreams' = openStreams \ {file_handler}
            /\ handlers' = RemoveHandler(handlers, file_handler)
            /\ file_handler' = 0
            /\ last' = NoOp("close")
       ELSE /\ last' = NoOp("close")
            /\ UNCHANGED <<handlers, file_handler, openStreams>>
    /\ UNCHANGED <<gpuVars, getVars, envVars, today, loggerLevel, constructed, cfg, has_file_handler, log_buffer,
                   files, dirs, nextId, stdout, console, rootOut, emitted, nEmit, nFlush>>

\* The driver calls vprint(msg, verbose=verbose); its k-th call prints "m<k>".
Emit(verbose) ==
    /\ nEmit < MaxEmit
    /\ nEmit' = nEmit + 1
    /\ LET msg == "m" \o ToString(nEmit + 1)
           io  == VPrint(IO, handlers, loggerLevel, msg, verbose)
       IN  /\ files' = io.files
           /\ log_buffer' = io.log_buffer
           /\ stdout' = io.stdout
           /\ console' = io.console
           /\ rootOut' = io.rootOut
           /\ emitted' = IF VPrintGate(verbose) THEN Append(emitted, msg) ELSE emitted
           /\ last' = Outcome("vprint", "none", None, "", verbose)
    /\ UNCHANGED <<gpuVars, getVars, envVars, today, loggerLevel, handlers, constructed, cfg, has_file_handler,
                   file_handler, dirs, openStreams, nextId, nFlush>>

\* Midnight passes.
Tick ==
    /\ today <= MaxDay
    /\ today' = today + 1
    /\ last' = NoOp("tick")
    /\ UNCHANGED <<gpuVars, getVars, envVars, logVars, ioVars, emitted, nEmit, nFlush>>

(***************************************************************************)
(* set_gpu_device                                                          *)
(***************************************************************************)
\* The argument gpuid: None, or an integer.
GpuNone == [none |-> TRUE, id |-> 0]
GpuId(i) == [none |-> FALSE, id |-> i]
GpuIds == {GpuNone} \cup {GpuId(i) : i \in -1..MaxCuda}

\* torch.device(f"cuda:{gpuid}") raises RuntimeError (invalid device string)
\* unless the index is written with digits only.
IndexedDeviceRaises(gpuid) == gpuid < 0

\* Lines 256-278: the device chosen, "" when building it raises.
ChooseDevice(g) ==
    IF g.none THEN "cpu"
    ELSE IF cudaAvailable
         THEN IF g.id < cudaCount
              THEN (IF IndexedDeviceRaises(g.id) THEN "" ELSE "cuda:" \o ToString(g.id))
              ELSE "cuda"
         ELSE IF mpsAvailable THEN "mps" ELSE "cpu"

\* The notice printed with the device chosen.
DeviceNotice(g, device) ==
    IF g.none THEN "Specified to use CPU (gpuid=None)."
    ELSE IF cudaAvailable
         THEN IF g.id < cudaCount
              THEN "Selected GPU device: " \o device \o " (<device name>)"
              ELSE "Requested CUDA device cuda:" \o ToString(g.id) \o " is out of range (only "
                       \o ToString(cudaCount) \o " available).Fall back to GPU device: " \o device
         ELSE IF mpsAvailable THEN "Selected GPU device: MPS (Apple Silicon)"
         ELSE "GPU ID specifed as " \o ToString(g.id) \o " but no GPU found. Using CPU instead."

\* set_gpu_device(gpuid)
SetGpuDevice(g) ==
    /\ nGpuCalls < MaxGpuCalls
    /\ nGpuCalls' = nGpuCalls + 1
    /\ LET device == ChooseDevice(g)
           io == IF device = ""
                 THEN VPrint(IO, handlers, loggerLevel, "### Setting GPU Device ###", TRUE)
                 ELSE VPrintAll(IO, handlers, loggerLevel,
                          <<"### Setting GPU Device ###", DeviceNotice(g, device), " ">>)
       IN  /\ gpuCall' = [called |-> TRUE, gpuid |-> g, device |-> device,
                          raised |-> IF device = "" THEN "RuntimeError" ELSE "none"]
           /\ defaultDevice' = IF device = "" THEN defaultDevice ELSE device
           /\ files' = io.files
           /\ log_buffer' = io.log_buffer
           /\ stdout' = io.stdout
           /\ console' = io.console
           /\ rootOut' = io.rootOut
    /\ UNCHANGED <<getVars, envVars, today, loggerLevel, handlers, constructed, cfg,
                   has_file_handler, file_handler, dirs, openStreams, nextId, histVars,
                   cudaAvailable, cudaCount, mpsAvailable>>

(***************************************************************************)
(* safe_get_nested                                                         *)
(***************************************************************************)
\* Python values: None, an int, or a dict from str keys to values.
EmptyMap == [k \in {} |-> 0]
PyNone == [t |-> "none", v |-> 0, m |-> EmptyMap]
PyInt(i) == [t |-> "int", v |-> i, m |-> EmptyMap]
PyDict(f) == [t |-> "dict", v |-> 0, m |-> f]

\* A check for a false value (None, 0, {}) where the code checks for None.
IsFalsy(v) == v = PyNone \/ v = PyInt(0) \/ v = PyDict(EmptyMap)

\* d is None
IsNone(v) == v = PyNone

\* dict.get(key): None when the key is missing
DictGet(f, key) == IF key \in DOMAIN f THEN f[key] ELSE PyNone

\* isinstance(d, dict)
IsDict(v) == v.t = "dict"

\* safe_get_nested(d, keys, default)
RECURSIVE safe_get_nested(_, _, _)
safe_get_nested(d, keys, default) ==
    IF keys = <<>> THEN d
    ELSE IF ~IsDict(d) THEN default
    ELSE LET nd == DictGet(d.m, Head(keys))
         IN  IF IsNone(nd) THEN default
             ELSE safe_get_nested(nd, Tail(keys), default)

SafeGetNested ==
    /\ ~sg_result.called
    /\ sg_result' = [called |-> TRUE, value |-> safe_get_nested(sg_d, sg_keys, sg_default)]
    /\ UNCHANGED <<sg_d, sg_keys, sg_default, gpuVars, envVars, today, logVars, ioVars, histVars>>

\* The arguments the model calls safe_get_nested with: dicts nested two deep over
\* two keys, with None, 0 and 1 as leaves.
Keys == {"a", "b"}
Leaves == {PyNone, PyInt(0), PyInt(1)}
PartialMaps(K, V) == UNION {[S -> V] : S \in SUBSET K}
Dicts1 == {PyDict(f) : f \in PartialMaps(Keys, Leaves)}
Dicts2 == {PyDict(f) : f \in PartialMaps(Keys, Leaves \cup Dicts1)}
KeyPaths == UNION {[1..n -> Keys] : n \in 0..MaxPath}

(***************************************************************************)
(* The process: the environment is fixed when it starts, no logger is      *)
(* configured yet.                                                         *)
(***************************************************************************)
EnvInit ==
    /\ distAvailable \in BOOLEAN
    /\ distInitialized \in BOOLEAN
    /\ distInitialized => distAvailable
    /\ distRank \in 0..1
    /\ ~distInitialized => distRank = 0
    /\ rootHandlers \in BOOLEAN
    /\ rootLevel \in RootLevels
    /\ ~rootHandlers => rootLevel = 30

LogInit ==
    /\ today = 1
    /\ loggerLevel = NOTSET
    /\ handlers = <<>>
    /\ constructed = FALSE
    /\ cfg = DefaultConfig
    /\ has_file_handler = FALSE
    /\ file_handler = 0
    /\ log_buffer = <<>>
    /\ files = [p \in {} |-> <<>>]
    /\ dirs = {}
    /\ openStreams = {}
    /\ nextId = 1
    /\ stdout = <<>>
    /\ console = <<>>
    /\ rootOut = <<>>
    /\ emitted = <<>>
    /\ last = NoOp("start")
    /\ nEmit = 0
    /\ nFlush = 0

\* No set_gpu_device call yet, on a machine with no accelerator.
GpuIdle ==
    /\ defaultDevice = "cpu"
    /\ gpuCall = [called |-> FALSE, gpuid |-> GpuNone, device |-> "", raised |-> "none"]
    /\ nGpuCalls = 0

NoGpu == cudaAvailable = FALSE /\ cudaCount = 0 /\ mpsAvailable = FALSE

\* safe_get_nested(None, ()) was called and returned None: no further call.
GetIdle ==
    /\ sg_d = PyNone
    /\ sg_keys = <<>>
    /\ sg_default = PyNone
    /\ sg_result = [called |-> TRUE, value |-> PyNone]

\* The life cycle of a CustomLogger, file naming left at its defaults but for
\* prefix_date, in a process that leaves Python's root logger without handler.
LifeConfigs == {c \in Configs : c.log_dir = "auto" /\ c.prefix_jobid = 0}

Init == EnvInit /\ ~rootHandlers /\ LogInit /\ GpuIdle /\ NoGpu /\ GetIdle

Next ==
    \/ \E c \in LifeConfigs : Construct(c)
    \/ \E a \in AppendArgs : Flush(None, a)
    \/ Close
    \/ Emit(TRUE)

Spec == Init /\ [][Next]_vars

\* The naming of the log file: every configuration of log_file, log_dir,
\* prefix_date and prefix_jobid, every log_dir argument, across midnight, in a
\* single-process run.
NameConfigs == {c \in Configs : c.append_to_file /\ c.show_timestamp}

InitName == EnvInit /\ ~rootHandlers /\ ~distAvailable /\ LogInit /\ GpuIdle /\ NoGpu /\ GetIdle

NextName ==
    \/ \E c \in NameConfigs : Construct(c)
    \/ \E d \in LogDirArgs : Flush(d, [given |-> FALSE, val |-> FALSE])
    \/ Close
    \/ Emit(TRUE)
    \/ Tick

SpecName == InitName /\ [][NextName]_vars

\* vprint in every environment, root logger configured or not, with a
\* CustomLogger of the default configuration.
InitVprint == EnvInit /\ LogInit /\ GpuIdle /\ NoGpu /\ GetIdle

NextVprint ==
    \/ Construct(DefaultConfig)
    \/ Flush(None, [given |-> FALSE, val |-> FALSE])
    \/ Close
    \/ \E v \in BOOLEAN : Emit(v)

SpecVprint == InitVprint /\ [][NextVprint]_vars

\* set_gpu_device on every machine (CUDA with one or more devices, MPS, none),
\* for gpuid None and every integer from -1 up, before any logger is configured.
InitGpu ==
    /\ EnvInit /\ ~rootHandlers /\ LogInit /\ GpuIdle /\ GetIdle
    /\ cudaAvailable \in BOOLEAN
    /\ cudaCount \in 0..MaxCuda
    /\ cudaAvailable <=> cudaCount > 0
    /\ mpsAvailable \in BOOLEAN

NextGpu == \E g \in GpuIds : SetGpuDevice(g)

SpecGpu == InitGpu /\ [][NextGpu]_vars

\* safe_get_nested on every argument of the sets above.
InitGet ==
    /\ EnvInit /\ ~rootHandlers /\ ~distAvailable /\ LogInit /\ GpuIdle /\ NoGpu
    /\ sg_d \in Leaves \cup Dicts2
    /\ sg_keys \in KeyPaths
    /\ sg_default \in {PyNone, PyInt(7)}
    /\ sg_result = [called |-> FALSE, value |-> PyNone]

NextGet == SafeGetNested

SpecGet == InitGet /\ [][NextGet]_vars

(***************************************************************************)
(* Properties of the CustomLogger and of vprint.                           *)
(***************************************************************************)
FormatAll(ts, msgs) == [i \in 1..Len(msgs) |-> Format(ts, msgs[i])]

\* a occurs in b as a block of consecutive lines
IsInfix(a, b) ==
    \E i \in 0..(Len(b) - Len(a)) : SubSeq(b, i + 1, i + Len(a)) = a

NoFileHandlerAttached == \A i \in 1..Len(handlers) : handlers[i].kind # "file"

\* flush_to_file has just returned after writing a log file
FlushReturned == last.op = "flush" /\ last.raised = "none" /\ last.path # ""

\* What vprint lets through on this process when verbose is left at its default.
IfPrinted(msgs) == IF VPrintGate(TRUE) THEN msgs ELSE <<>>

\* C1 as stated: before any flush_to_file call the buffer holds exactly the
\* formatted lines of the records the driver emitted since construction, in
\* order and nothing else, and no log file exists.
C1_BufferHoldsOnlyEmittedRecords ==
    (constructed /\ nFlush = 0) =>
        /\ log_buffer = FormatAll(cfg.show_timestamp, emitted)
        /\ DOMAIN files = {}

\* C1 amended: before any flush_to_file call the buffer holds the nine
\* configuration lines the constructor prints through vprint (none where vprint
\* is suppressed), then the formatted lines of the emitted records in emission
\* order, and no directory or log file has been created.
C1_BufferHoldsConfigThenRecords ==
    (constructed /\ nFlush = 0) =>
        /\ log_buffer = FormatAll(cfg.show_timestamp, IfPrinted(ConfigLines(cfg)) \o emitted)
        /\ DOMAIN files = {}
        /\ dirs = {}

C1_Witness ==
    /\ constructed /\ nFlush = 0 /\ last.op = "vprint"
    /\ Len(emitted) = 2
    /\ Len(log_buffer) = Len(ConfigLines(cfg)) + 2

\* A flush_to_file call that wrote a file: the file exists and holds the lines the
\* buffer held.
C2_FlushWritesBuffer ==
    (nFlush' = nFlush + 1 /\ FlushReturned') =>
        /\ last'.path \in DOMAIN files'
        /\ IsInfix(log_buffer, files'[last'.path])

\* C2 as stated: when flush_to_file returns the file exists and holds the lines of
\* the buffer, the buffer is empty, and a record emitted after a flush appears in
\* the file without another flush_to_file call.
C2_FlushLeavesBufferEmpty ==
    [][ /\ C2_FlushWritesBuffer
        /\ (nFlush' = nFlush + 1 /\ FlushReturned') => log_buffer' = <<>>
        /\ (nEmit' = nEmit + 1 /\ DOMAIN files # {} /\ VPrintGate(last'.verbose)) =>
               \E p \in DOMAIN files' :
                   /\ nFlush' = nFlush
                   /\ files'[p] # <<>>
                   /\ files'[p][Len(files'[p])] = Format(cfg.show_timestamp, "m" \o ToString(nEmit'))
      ]_vars

\* C3: with log_file = None, whatever prefix_date and prefix_jobid are,
\* flush_to_file returns normally, creates no directory and no file, attaches no
\* file handler, leaves the logger unflushed and prints its notice through vprint.
C3_FlushWithoutLogFileIsNoOp ==
    (last.op = "flush" /\ cfg.log_file = None) =>
        /\ last.raised = "none"
        /\ dirs = {} /\ DOMAIN files = {}
        /\ NoFileHandlerAttached /\ file_handler = 0 /\ openStreams = {}
        /\ VPrintGate(TRUE) =>
               /\ Len(log_buffer) >= 2
               /\ log_buffer[Len(log_buffer) - 1] = Format(cfg.show_timestamp,
                      "### Log file is not flushed (created) because log_file is set to None ###")

\* C4: close() called while no file handler is attached, right after
\* construction included, returns normally and changes nothing.
C4_CloseWithoutFileHandlerIsSafe ==
    [][ (last'.op = "close" /\ NoFileHandlerAttached) =>
            /\ last'.raised = "none"
            /\ UNCHANGED <<logVars, ioVars>>
      ]_vars

\* C5: a vprint call produces output exactly when verbose is true and no
\* distributed context is initialized or the rank is 0; the output goes through
\* the 'PtyRAD' logger when that logger has a handler, to standard output
\* otherwise, never to both.
C5_VprintOutput ==
    [][ (last'.op = "vprint" /\ nEmit' = nEmit + 1) =>
            LET toStdout == stdout' # stdout
                toLogger == \/ console' # console \/ log_buffer' # log_buffer
                            \/ files' # files \/ rootOut' # rootOut
                should   == last'.verbose /\ (~distInitialized \/ distRank = 0)
            IN  /\ (toStdout \/ toLogger) <=> should
                /\ should => IF handlers # <<>>
                             THEN toLogger /\ ~toStdout
                             ELSE /\ stdout' = Append(stdout, "m" \o ToString(nEmit'))
                                  /\ ~toLogger
      ]_vars

\* The directory and the prefixes the claims about the file name speak of.
ExpectedDir ==
    IF last.log_dir # None THEN last.log_dir
    ELSE IF cfg.log_dir # "auto" THEN cfg.log_dir ELSE "logs"

JobIdPrefix ==
    IF cfg.prefix_jobid = 0 THEN ""
    ELSE (IF cfg.prefix_jobid \in 1..9 THEN "0" ELSE "") \o ToString(cfg.prefix_jobid) \o "_"

DatePrefix == IF cfg.prefix_date THEN Dates[today] \o "_" ELSE ""

\* C8 as stated: the file is written at <log_dir>/[<jobid>_][<YYYYMMDD>_]<log_file>.
C8_JobIdThenDate ==
    FlushReturned =>
        /\ last.path = ExpectedDir \o "/" \o JobIdPrefix \o DatePrefix \o cfg.log_file
        /\ last.path \in DOMAIN files

\* C8 amended: the file is written at <log_dir>/[<YYYYMMDD>_][<jobid>_]<log_file>,
\* the date of the flush first, then the zero-padded job id, then the base name;
\* the directory is the log_dir argument if given, else the configured log_dir,
\* 'logs' standing for 'auto'.
C8_DateThenJobId ==
    FlushReturned =>
        /\ last.path = ExpectedDir \o "/" \o DatePrefix \o JobIdPrefix \o cfg.log_file
        /\ last.path \in DOMAIN files
        /\ ExpectedDir \in dirs

C8_Witness ==
    /\ FlushReturned
    /\ cfg.prefix_date /\ cfg.prefix_jobid # 0
    /\ today = 2
    /\ last.path = "logs/20261103_07_output.log"

\* C9: once flush_to_file was called a second time, and for as long as its file
\* handler is attached, the log file holds every record emitted since construction
\* (the lines the console handler printed) exactly once and in emission order, as
\* it does after a single flush_to_file.
C9_SecondFlushIsIdempotent ==
    (nFlush >= 2 /\ file_handler # 0) =>
        \A p \in DOMAIN files : files[p] = console

\* C10: after close() the logger's handlers are exactly the console handler and
\* the buffer handler, self.file_handler is None and no stream opened for a log
\* file is still open (so no later record reaches the file).
C10_CloseDetachesEveryFileHandler ==
    last.op = "close" =>
        /\ handlers = <<ConsoleHandler(cfg.show_timestamp), BufferHandler(cfg.show_timestamp)>>
        /\ file_handler = 0
        /\ openStreams = {}

(***************************************************************************)
(* Properties of set_gpu_device and safe_get_nested.                       *)
(***************************************************************************)
\* C6: set_gpu_device never fails; it returns the CPU device for gpuid = None,
\* for an integer gpuid the indexed CUDA device when CUDA is available and gpuid
\* is a valid index below the device count, the generic CUDA device when CUDA is
\* available and gpuid is out of range, else the MPS device when MPS is
\* available, else the CPU device; and the device returned is the default device.
C6_SetGpuDeviceNeverFails ==
    gpuCall.called =>
        LET g == gpuCall.gpuid
            expected ==
                IF g.none THEN "cpu"
                ELSE IF cudaAvailable
                     THEN (IF g.id \in 0..(cudaCount - 1) THEN "cuda:" \o ToString(g.id) ELSE "cuda")
                     ELSE IF mpsAvailable THEN "mps" ELSE "cpu"
        IN  /\ gpuCall.raised = "none"
            /\ gpuCall.device = expected
            /\ defaultDevice = gpuCall.device

\* The path keys is present in d: every key is found, in a dict.
RECURSIVE PathPresent(_, _)
PathPresent(d, keys) ==
    \/ keys = <<>>
    \/ /\ d.t = "dict"
       /\ Head(keys) \in DOMAIN d.m
       /\ PathPresent(d.m[Head(keys)], Tail(keys))

\* The value stored at a path that is present.
RECURSIVE ValueAt(_, _)
ValueAt(d, keys) ==
    IF keys = <<>> THEN d ELSE ValueAt(d.m[Head(keys)], Tail(keys))

\* C7 as stated: safe_get_nested returns the exact value stored at the path when
\* the path is present, the default when a key is missing or an intermediate
\* value is not a mapping.
C7_ReturnsStoredValueOrDefault ==
    sg_result.called =>
        sg_result.value = IF PathPresent(sg_d, sg_keys) THEN ValueAt(sg_d, sg_keys)
                          ELSE sg_default

\* C7 amended: for the empty key sequence safe_get_nested returns d itself; for a
\* path that is present and stores a value other than None it returns that exact
\* value; when the value stored at the path is None, a key is missing or an
\* intermediate value is not a mapping, it returns the default.
C7_ReturnsStoredNonNoneValueOrDefault ==
    sg_result.called =>
        sg_result.value =
            IF sg_keys = <<>> THEN sg_d
            ELSE IF PathPresent(sg_d, sg_keys) /\ ValueAt(sg_d, sg_keys) # PyNone
                 THEN ValueAt(sg_d, sg_keys)
                 ELSE sg_default

C7_Witness ==
    /\ sg_result.called
    /\ Len(sg_keys) = 2
    /\ PathPresent(sg_d, sg_keys)
    /\ ValueAt(sg_d, sg_keys) = PyInt(0)
    /\ sg_default = PyInt(7)
    /\ sg_result.value = PyInt(0)

====
